---------------------------- MODULE Spec2Model ----------------------------
(***************************************************************************)
(* cmdstat: the table engine (src/src/table.rs) and the column parser and  *)
(* usage bar of src/src/main.rs.                                           *)
(*                                                                         *)
(* A String is a sequence of Unicode code points (naturals); an            *)
(* Option<T> is <<>> (None) or <<x>> (Some(x)); an Ordering is one of      *)
(* "Less", "Equal", "Greater".                                             *)
(***************************************************************************)
EXTENDS Integers, Sequences, FiniteSets, TLC

VARIABLES
  title, headings, columns, rows, sort_by, reverse, no_header, \* struct Table
  last,          \* the call that completed last on the table
  sorted_from,   \* sort(): the rows as sort() found them
  widths,        \* fmt(): the local `widths` when fmt returns
  out,           \* fmt(): the lines written to the formatter
  percentage, term_width, bar,   \* get_bar: its arguments and its result
  s, parsed,     \* from_str: its argument and its result
  compared,      \* sort()'s comparator: its result on each pair of rows
  cli_columns, cli_sort,   \* Cli: columns, sort
  entries,       \* CmdStats: entries
  pc             \* get_entry_table: the statement it is at

vars == << title, headings, columns, rows, sort_by, reverse, no_header,
           last, sorted_from, widths, out,
           percentage, term_width, bar, s, parsed, compared,
           cli_columns, cli_sort, entries, pc >>

tableVars == << title, headings, columns, rows, sort_by, reverse, no_header,
                last, sorted_from, widths, out >>
barVars == << percentage, term_width, bar >>
parseVars == << s, parsed >>
compareVars == << compared >>
entryVars == << cli_columns, cli_sort, entries, pc >>

-----------------------------------------------------------------------------
(* Bounds of the model.                                                    *)

MaxHeadings == 2     \* with_heading is taken while headings.len() < MaxHeadings (Spec)
MaxRows == 2         \* add_row is taken while rows.len() < MaxRows (Spec)
MaxSortRows == 3     \* add_row is taken while rows.len() < MaxSortRows (SortSpec)
MaxPercentage == 100 \* get_bar(percentage, _): percentage in 0..MaxPercentage
MaxBarWidth == 56    \* get_bar(_, term_width): term_width in 0..MaxBarWidth
MaxNameLen == 3      \* from_str(s): every s of up to MaxNameLen of a few letters
MaxCliColumns == 2   \* --columns: up to MaxCliColumns columns (EntrySpec)
MaxEntries == 2      \* the stats file: up to MaxEntries entries (EntrySpec)

-----------------------------------------------------------------------------
(* Option, Ordering, strings.                                              *)

None == << >>
Some(x) == << x >>

Max(a, b) == IF a >= b THEN a ELSE b

RECURSIVE Sum(_)
Sum(q) == IF q = << >> THEN 0 ELSE Head(q) + Sum(Tail(q))

\* str::repeat
Repeat(str, n) ==
  IF n <= 0 \/ str = << >> THEN << >>
  ELSE [i \in 1..(n * Len(str)) |-> str[((i - 1) % Len(str)) + 1]]

\* Ord::cmp on integers
Cmp(a, b) == IF a < b THEN "Less" ELSE IF a > b THEN "Greater" ELSE "Equal"

\* Ordering::reverse
OrdReverse(ord) ==
  IF ord = "Less" THEN "Greater" ELSE IF ord = "Greater" THEN "Less" ELSE "Equal"

\* String's Ord: lexicographic on the UTF-8 bytes, which is the order of the
\* code point sequences
RECURSIVE StrCmp(_, _)
StrCmp(a, b) ==
  IF a = << >> /\ b = << >> THEN "Equal"
  ELSE IF a = << >> THEN "Less"
  ELSE IF b = << >> THEN "Greater"
  ELSE IF Head(a) # Head(b) THEN Cmp(Head(a), Head(b))
  ELSE StrCmp(Tail(a), Tail(b))

SPACE == 32     \* ' '
DASH == 45      \* '-'

\* char::is_whitespace
IsWhitespace(c) == c \in {9, 10, 11, 12, 13, 32, 133, 160}
IsDigit(c) == c \in 48..57

\* str::trim
RECURSIVE TrimStart(_)
TrimStart(str) ==
  IF str # << >> /\ IsWhitespace(Head(str)) THEN TrimStart(Tail(str)) ELSE str

RECURSIVE TrimEnd(_)
TrimEnd(str) ==
  IF str # << >> /\ IsWhitespace(str[Len(str)])
    THEN TrimEnd(SubSeq(str, 1, Len(str) - 1)) ELSE str

Trim(str) == TrimEnd(TrimStart(str))

RECURSIVE DigitsValue(_, _)
DigitsValue(digits, acc) ==
  IF digits = << >> THEN acc
  ELSE DigitsValue(Tail(digits), acc * 10 + (Head(digits) - 48))

\* str::parse::<u64>: an optional '+', then one or more decimal digits. (The
\* strings of this model have fewer than ten digits: none overflows a u64.)
ParseU64(str) ==
  LET digits == IF str # << >> /\ Head(str) = 43 THEN Tail(str) ELSE str IN
  IF digits # << >> /\ \A i \in 1..Len(digits) : IsDigit(digits[i])
    THEN Some(DigitsValue(digits, 0))
    ELSE None

\* unicode_width: columns of one code point (control characters 0, CJK
\* ideographs 2, the rest of this model's alphabet 1)
CharWidth(c) ==
  IF c < 32 \/ c \in 127..159 THEN 0
  ELSE IF c \in 19968..40959 THEN 2
  ELSE 1

\* UnicodeWidthStr::width
RECURSIVE StrWidth(_)
StrWidth(str) ==
  IF str = << >> THEN 0 ELSE CharWidth(Head(str)) + StrWidth(Tail(str))

\* the rest of a CSI sequence after "ESC [": parameter bytes 0x30..0x3F, then
\* one final byte 0x40..0x7E
RECURSIVE SkipCsi(_)
SkipCsi(str) ==
  IF str = << >> THEN << >>
  ELSE IF Head(str) \in 48..63 THEN SkipCsi(Tail(str))
  ELSE IF Head(str) \in 64..126 THEN Tail(str)
  ELSE str

\* console::strip_ansi_codes
RECURSIVE strip_ansi_codes(_)
strip_ansi_codes(str) ==
  IF str = << >> THEN << >>
  ELSE IF Head(str) = 27 /\ Len(str) >= 2 /\ str[2] = 91   \* ESC [
    THEN strip_ansi_codes(SkipCsi(Tail(Tail(str))))
  ELSE << Head(str) >> \o strip_ansi_codes(Tail(str))

\* format!("{:<width$}", str): left-justified, padded with spaces up to
\* `width` chars, never cut
PadLeft(str, width) == str \o Repeat(<< SPACE >>, width - Len(str))

-----------------------------------------------------------------------------
(* Cell, Row (table.rs 155-203).  A Row is the sequence of its cells.      *)

\* Cell::new(content), optionally .with_color(color)
Cell(content, color) == [content |-> content, color |-> color]

\* Cell::as_number
as_number(cell) == ParseU64(Trim(cell.content))

Green == 10      \* Color::Green, as its ANSI colour value

\* crossterm's `padded.with(color)`: set-foreground, the text, reset-foreground
Styled(str, color) ==
  << 27, 91, 51, 56, 59, 53, 59 >> \o << 48 + (color \div 10), 48 + (color % 10), 109 >>
    \o str \o << 27, 91, 51, 57, 109 >>

-----------------------------------------------------------------------------
(* Table (table.rs 18-153).                                                *)

\* Vec::insert(index, element): index <= len
VecInsert(v, index, element) ==
  SubSeq(v, 1, index) \o << element >> \o SubSeq(v, index + 1, Len(v))

\* update_cell_widths measuring the cells with their ANSI escapes
update_cell_widths_unstripped(ws, cells) ==
  [i \in 1..Max(Len(ws), Len(cells)) |->
     IF i > Len(cells) THEN ws[i]
     ELSE LET visible_width == StrWidth(cells[i]) IN
          IF i <= Len(ws)
            THEN (IF visible_width > ws[i] THEN visible_width ELSE ws[i])
            ELSE visible_width]

\* Table::update_cell_widths(widths, cells)
update_cell_widths(ws, cells) ==
  [i \in 1..Max(Len(ws), Len(cells)) |->
     IF i > Len(cells) THEN ws[i]
     ELSE LET visible_width == StrWidth(strip_ansi_codes(cells[i])) IN
          IF i <= Len(ws)
            THEN (IF visible_width > ws[i] THEN visible_width ELSE ws[i])
            ELSE visible_width]

RowContents(row) == [i \in 1..Len(row) |-> row[i].content]

RECURSIVE CellWidthsOver(_, _)
CellWidthsOver(ws, rs) ==
  IF rs = << >> THEN ws
  ELSE CellWidthsOver(update_cell_widths(ws, RowContents(Head(rs))), Tail(rs))

\* Table::calc_cell_widths: its assert!(cells.len() == self.columns)
calc_cell_widths_panics(rs, cols) == \E i \in 1..Len(rs) : Len(rs[i]) # cols

\* Table::calc_cell_widths
calc_cell_widths(hs, rs) == CellWidthsOver(update_cell_widths(<< >>, hs), rs)

\* compare with the non-numeric branch's inversion dropped
compare_no_inversion(a, b, col_idx, hs, rev) ==
  LET cell_a == a[col_idx]
      cell_b == b[col_idx]
      an == as_number(cell_a)
      bn == as_number(cell_b)
  IN IF an # None /\ bn # None
       THEN LET ord == Cmp(bn[1], an[1]) IN
            IF rev THEN OrdReverse(ord) ELSE ord
       ELSE LET ord == IF hs[col_idx] = << 85, 115, 97, 103, 101 >>
                         THEN Cmp(StrWidth(cell_a.content), StrWidth(cell_b.content))
                         ELSE StrCmp(cell_b.content, cell_a.content) IN
            IF rev THEN OrdReverse(ord) ELSE ord

\* compare with the numeric branch comparing an to bn
compare_numbers_ascending(a, b, col_idx, hs, rev) ==
  LET cell_a == a[col_idx]
      cell_b == b[col_idx]
      an == as_number(cell_a)
      bn == as_number(cell_b)
  IN IF an # None /\ bn # None
       THEN LET ord == Cmp(an[1], bn[1]) IN
            IF rev THEN OrdReverse(ord) ELSE ord
       ELSE LET ord == IF hs[col_idx] = << 85, 115, 97, 103, 101 >>
                         THEN Cmp(StrWidth(cell_a.content), StrWidth(cell_b.content))
                         ELSE StrCmp(cell_b.content, cell_a.content) IN
            IF rev THEN ord ELSE OrdReverse(ord)

\* compare without the "Usage" case
compare_usage_lexical(a, b, col_idx, hs, rev) ==
  LET cell_a == a[col_idx]
      cell_b == b[col_idx]
      an == as_number(cell_a)
      bn == as_number(cell_b)
  IN IF an # None /\ bn # None
       THEN LET ord == Cmp(bn[1], an[1]) IN
            IF rev THEN OrdReverse(ord) ELSE ord
       ELSE LET ord == StrCmp(cell_b.content, cell_a.content) IN
            IF rev THEN ord ELSE OrdReverse(ord)

\* The comparator of Table::sort. col_idx is 1-based here.
compare(a, b, col_idx, hs, rev) ==
  LET cell_a == a[col_idx]
      cell_b == b[col_idx]
      an == as_number(cell_a)
      bn == as_number(cell_b)
  IN IF an # None /\ bn # None
       THEN LET ord == Cmp(bn[1], an[1]) IN
            IF rev THEN OrdReverse(ord) ELSE ord
       ELSE LET ord == IF hs[col_idx] = << 85, 115, 97, 103, 101 >>   \* "Usage"
                         THEN Cmp(StrWidth(cell_a.content), StrWidth(cell_b.content))
                         ELSE StrCmp(cell_b.content, cell_a.content) IN
            IF rev THEN ord ELSE OrdReverse(ord)

\* slice::sort_by on the short slices of this model: the stable insertion
\* sort, each element moved left past the elements it compares Less than
RECURSIVE InsertTail(_, _, _, _, _)
InsertTail(sorted, x, col_idx, hs, rev) ==
  IF sorted = << >> \/ compare(x, sorted[Len(sorted)], col_idx, hs, rev) # "Less"
    THEN Append(sorted, x)
    ELSE Append(InsertTail(SubSeq(sorted, 1, Len(sorted) - 1), x, col_idx, hs, rev),
                sorted[Len(sorted)])

RECURSIVE SortFrom(_, _, _, _, _)
SortFrom(sorted, rest, col_idx, hs, rev) ==
  IF rest = << >> THEN sorted
  ELSE SortFrom(InsertTail(sorted, Head(rest), col_idx, hs, rev), Tail(rest),
                col_idx, hs, rev)

sort_by_compare(rs, col_idx, hs, rev) == SortFrom(<< >>, rs, col_idx, hs, rev)

\* Table::sort: self.sort_by.unwrap_or_default(), 1-based
SortColumn(sb) == IF sb = None THEN 1 ELSE sb[1] + 1

\* Table::sort panics: its assert on col_idx, a row without cell col_idx, or no
\* heading col_idx when a compared pair is not both numeric. Every row of a
\* slice of two or more is compared at least once.
sort_panics(hs, cols, rs, sb) ==
  LET col_idx == SortColumn(sb) IN
  \/ ~(col_idx \in 1..cols)
  \/ /\ Len(rs) >= 2
     /\ \/ \E i \in 1..Len(rs) : Len(rs[i]) < col_idx
        \/ /\ Len(hs) < col_idx
           /\ \E i \in 1..Len(rs) : as_number(rs[i][col_idx]) = None

Rule(ws, cols) == [k |-> "rule", s |-> Repeat(<< DASH >>, Sum(ws) + cols)]

RECURSIVE Concat(_)
Concat(strs) == IF strs = << >> THEN << >> ELSE Head(strs) \o Concat(Tail(strs))

\* fmt's widths: calc_cell_widths, then raised to each heading's width
fmt_widths(hs, rs) ==
  LET ws == calc_cell_widths(hs, rs) IN
  [i \in 1..Len(ws) |->
     IF i <= Len(hs) /\ StrWidth(strip_ansi_codes(hs[i])) > ws[i]
       THEN StrWidth(strip_ansi_codes(hs[i])) ELSE ws[i]]

RowLine(row, ws) ==
  [k |-> "row",
   s |-> Concat([i \in 1..Len(row) |->
           LET padded == PadLeft(row[i].content, ws[i]) \o << SPACE >> IN
           IF row[i].color # None THEN Styled(padded, row[i].color[1]) ELSE padded])]

\* fmt without its return on empty widths
fmt_lines_no_early_return(t, hs, cols, rs, nh) ==
  LET ws == fmt_widths(hs, rs) IN
    (IF hs # << >> /\ ~nh
       THEN (IF t # None
               THEN << [k |-> "title", s |-> t[1]], Rule(ws, cols) >>
               ELSE << >>)
            \o << [k |-> "headings",
                   s |-> Concat([i \in 1..Len(hs) |->
                                   PadLeft(hs[i], ws[i]) \o << SPACE >>])],
                  Rule(ws, cols) >>
       ELSE << >>)
    \o [i \in 1..Len(rs) |-> RowLine(rs[i], ws)]
    \o (IF ~nh THEN << Rule(ws, cols) >> ELSE << >>)

\* fmt writing the title above a table without headings too
fmt_lines_title_without_headings(t, hs, cols, rs, nh) ==
  LET ws == fmt_widths(hs, rs) IN
  IF calc_cell_widths(hs, rs) = << >> THEN << >>
  ELSE
    (IF ~nh /\ t # None
       THEN << [k |-> "title", s |-> t[1]], Rule(ws, cols) >>
       ELSE << >>)
    \o (IF hs # << >> /\ ~nh
         THEN << [k |-> "headings",
                  s |-> Concat([i \in 1..Len(hs) |->
                                  PadLeft(hs[i], ws[i]) \o << SPACE >>])],
                 Rule(ws, cols) >>
         ELSE << >>)
    \o [i \in 1..Len(rs) |-> RowLine(rs[i], ws)]
    \o (IF ~nh THEN << Rule(ws, cols) >> ELSE << >>)

\* <Table as Display>::fmt: the lines written, each with the writeln! it is from
fmt_lines(t, hs, cols, rs, nh) ==
  LET ws == fmt_widths(hs, rs) IN
  IF calc_cell_widths(hs, rs) = << >> THEN << >>
  ELSE
    (IF hs # << >> /\ ~nh
       THEN (IF t # None
               THEN << [k |-> "title", s |-> t[1]], Rule(ws, cols) >>
               ELSE << >>)
            \o << [k |-> "headings",
                   s |-> Concat([i \in 1..Len(hs) |->
                                   PadLeft(hs[i], ws[i]) \o << SPACE >>])],
                  Rule(ws, cols) >>
       ELSE << >>)
    \o [i \in 1..Len(rs) |-> RowLine(rs[i], ws)]
    \o (IF ~nh THEN << Rule(ws, cols) >> ELSE << >>)

-----------------------------------------------------------------------------
(* f64 arithmetic of get_bar (main.rs 366-369).  A non-negative f64 is     *)
(* [int, frac]: its integer part and the bits after the binary point, most *)
(* significant first.  Every operation yields the exact result rounded to  *)
(* a 53-bit significand, ties to even, as IEEE 754 binary64 does.          *)

Significand == 53        \* bits of an f64 significand

RECURSIVE BitLen(_)
BitLen(n) == IF n = 0 THEN 0 ELSE 1 + BitLen(n \div 2)

\* the zero bits before the first one bit (all of them, if there is none)
LeadingZeros(bits) ==
  LET ones == {i \in 1..Len(bits) : bits[i] = 1} IN
  IF ones = {} THEN Len(bits) ELSE (CHOOSE i \in ones : \A j \in ones : i <= j) - 1

\* bits + one unit in the last place: [bits, carry]
AddUlp(bits) ==
  LET zeros == {i \in 1..Len(bits) : bits[i] = 0}
      z == IF zeros = {} THEN 0 ELSE CHOOSE i \in zeros : \A j \in zeros : j <= i
  IN [bits |-> [i \in 1..Len(bits) |-> IF i < z THEN bits[i] ELSE IF i = z THEN 1 ELSE 0],
      carry |-> IF z = 0 THEN 1 ELSE 0]

\* round to nearest, ties to even: x cut after its kept bits, the first bit
\* cut off (guard) and whether any later bit was set (sticky)
RoundNearestEven(int, kept, guard, sticky) ==
  LET lastbit == IF kept = << >> THEN int % 2 ELSE kept[Len(kept)]
      up == AddUlp(kept)
  IN IF guard = 1 /\ (sticky \/ lastbit = 1)
       THEN [int |-> int + up.carry, frac |-> up.bits]
       ELSE [int |-> int, frac |-> kept]

\* the fraction bits a significand leaves to a value with this integer part
\* and these fraction bits
KeptBits(int, frac) ==
  IF int > 0 THEN Significand - BitLen(int) ELSE LeadingZeros(frac) + Significand

\* an exact [int, frac] rounded to an f64
Round53(x) ==
  LET keep == KeptBits(x.int, x.frac) IN
  IF Len(x.frac) <= keep THEN x
  ELSE RoundNearestEven(x.int, SubSeq(x.frac, 1, keep), x.frac[keep + 1],
                        \E j \in (keep + 2)..Len(x.frac) : x.frac[j] = 1)

\* 2^e mod d, by squaring
RECURSIVE Pow2Mod(_, _)
Pow2Mod(e, d) ==
  IF e = 0 THEN 1 % d
  ELSE LET h == Pow2Mod(e \div 2, d) IN (h * h * (IF e % 2 = 1 THEN 2 ELSE 1)) % d

\* long division of r by d (r < d): the remainder after i bits of the quotient,
\* and bit i of the quotient
DivRem(r, d, i) == (r * Pow2Mod(i, d)) % d
DivBit(r, d, i) == (2 * DivRem(r, d, i - 1)) \div d

\* n as f64 / d as f64, for naturals n and d > 0 below 2^31 / d
F64Div(n, d) ==
  LET int == n \div d
      r == n % d
      \* the zero bits the quotient's fraction starts with
      zeros == CHOOSE z \in 0..BitLen(d) :
                 /\ r * (2 ^ (z + 1)) >= d
                 /\ \A y \in 0..(z - 1) : r * (2 ^ (y + 1)) < d
      keep == IF r = 0 THEN 0
              ELSE IF int > 0 THEN Significand - BitLen(int)
              ELSE zeros + Significand
  IN RoundNearestEven(int, [i \in 1..keep |-> DivBit(r, d, i)],
                      IF r = 0 THEN 0 ELSE DivBit(r, d, keep + 1),
                      r # 0 /\ DivRem(r, d, keep + 1) # 0)

\* limbs * k, a limb being eight bits, the carries running from the last limb
\* up: [limbs, carry]
RECURSIVE MulLimbs(_, _)
MulLimbs(limbs, k) ==
  IF limbs = << >> THEN [limbs |-> << >>, carry |-> 0]
  ELSE LET lower == MulLimbs(Tail(limbs), k)
           v == Head(limbs) * k + lower.carry
       IN [limbs |-> << v % 256 >> \o lower.limbs, carry |-> v \div 256]

\* bits * k: [bits, carry], the bits taken eight at a time
MulBits(bits, k) ==
  LET n == Len(bits)
      Bit(i) == IF i <= n THEN bits[i] ELSE 0
      Limb(j) == LET base == 8 * (j - 1) IN
                 Bit(base + 1) * 128 + Bit(base + 2) * 64 + Bit(base + 3) * 32
                   + Bit(base + 4) * 16 + Bit(base + 5) * 8 + Bit(base + 6) * 4
                   + Bit(base + 7) * 2 + Bit(base + 8)
      m == MulLimbs([j \in 1..((n + 7) \div 8) |-> Limb(j)], k)
  IN [bits |-> [i \in 1..n |->
                  (m.limbs[((i - 1) \div 8) + 1] \div (2 ^ (7 - ((i - 1) % 8)))) % 2],
      carry |-> m.carry]

\* x * (k as f64), for a natural k
F64Mul(x, k) ==
  LET m == MulBits(x.frac, k) IN
  Round53([int |-> x.int * k + m.carry, frac |-> m.bits])

\* x - (n as f64), for a natural n <= x
F64Sub(x, n) == Round53([int |-> x.int - n, frac |-> x.frac])

\* f64::floor() as usize
F64Floor(x) == x.int

\* f64::round() as usize: to the nearest integer, halves away from zero
F64RoundInt(x) == x.int + (IF x.frac # << >> /\ x.frac[1] = 1 THEN 1 ELSE 0)

-----------------------------------------------------------------------------
(* get_bar (main.rs 13-22, 366-387).                                       *)

BAR_CHARS == << 9615, 9614, 9613, 9612, 9611, 9610, 9609, 9608 >>

scaled_percentage(p, w) == F64Mul(F64Div(p, 100), w)
full_bars(p, w) == F64Floor(scaled_percentage(p, w))

\* remainder with the fraction scaled to eighths
remainder_in_eighths(p, w) ==
  F64RoundInt(F64Mul(F64Sub(scaled_percentage(p, w), full_bars(p, w)), 8))

remainder(p, w) ==
  F64RoundInt(F64Mul(F64Sub(scaled_percentage(p, w), full_bars(p, w)), 10))

\* the match on remainder; -1 is its unreachable!() arm
bar_index(r) ==
  CASE r \in {0, 1} -> 0
    [] r = 2 -> 1
    [] r \in {3, 4} -> 2
    [] r \in {5, 6} -> 3
    [] r = 7 -> 4
    [] r = 8 -> 5
    [] r = 9 -> 6
    [] r = 10 -> 7
    [] OTHER -> -1

\* get_bar without its bar.push_str
get_bar_full_only(p, w) ==
  IF bar_index(remainder(p, w)) < 0 THEN [unreachable |-> TRUE, glyphs |-> << >>]
  ELSE [unreachable |-> FALSE, glyphs |-> Repeat(<< BAR_CHARS[8] >>, full_bars(p, w))]

\* get_bar: the glyphs of the bar, or unreachable where unreachable!() panics
get_bar(p, w) ==
  LET idx == bar_index(remainder(p, w)) IN
  IF idx < 0 THEN [unreachable |-> TRUE, glyphs |-> << >>]
  ELSE [unreachable |-> FALSE,
        glyphs |-> Repeat(<< BAR_CHARS[8] >>, full_bars(p, w)) \o << BAR_CHARS[idx + 1] >>]


-----------------------------------------------------------------------------
(* TableColumn and its FromStr (main.rs 84-106).  A TableColumn is the     *)
(* name of its variant; a Result is <<"Ok", value>> or <<"Err", error>>.   *)

Ok(x) == << "Ok", x >>
Err(e) == << "Err", e >>

\* str::to_lowercase, on the ASCII letters and signs of this model's inputs
to_lowercase(str) ==
  [i \in 1..Len(str) |-> IF str[i] \in 65..90 THEN str[i] + 32 ELSE str[i]]

\* format!("cmdstat: invalid column name `{}'", s)
InvalidColumnName(str) ==
  << 99, 109, 100, 115, 116, 97, 116, 58, 32, 105, 110, 118, 97, 108, 105, 100, 32, 99, 111, 108, 117, 109, 110, 32, 110, 97, 109, 101, 32, 96 >>
    \o str \o << 39 >>

\* from_str matching s itself, not its lowercase
from_str_case_sensitive(str) ==
  LET lower == str IN
  CASE lower \in {<< 99, 111, 109, 109, 97, 110, 100 >>, << 99, 109, 100 >>} -> Ok("Command")
    [] lower \in {<< 99, 111, 117, 110, 116 >>, << 99, 97, 108, 108, 115 >>} -> Ok("Count")
    [] lower \in {<< 117, 115, 97, 103, 101 >>, << 98, 97, 114 >>} -> Ok("Usage")
    [] lower \in {<< 112, 101, 114, 99, 101, 110, 116 >>, << 112, 99, 116 >>, << 37 >>} -> Ok("Percent")
    [] lower = << 116, 121, 112, 101 >> -> Ok("Type")
    [] OTHER -> Err(InvalidColumnName(str))

\* <TableColumn as FromStr>::from_str
from_str(str) ==
  LET lower == to_lowercase(str) IN
  CASE lower \in {<< 99, 111, 109, 109, 97, 110, 100 >>,                 \* "command"
                  << 99, 109, 100 >>} -> Ok("Command")                    \* "cmd"
    [] lower \in {<< 99, 111, 117, 110, 116 >>,                        \* "count"
                  << 99, 97, 108, 108, 115 >>} -> Ok("Count")             \* "calls"
    [] lower \in {<< 117, 115, 97, 103, 101 >>,                        \* "usage"
                  << 98, 97, 114 >>} -> Ok("Usage")                      \* "bar"
    [] lower \in {<< 112, 101, 114, 99, 101, 110, 116 >>,               \* "percent"
                  << 112, 99, 116 >>,                               \* "pct"
                  << 37 >>} -> Ok("Percent")                              \* "%"
    [] lower = << 116, 121, 112, 101 >> -> Ok("Type")                      \* "type"
    [] OTHER -> Err(InvalidColumnName(str))

-----------------------------------------------------------------------------
(* CmdStats: the rows of get_specified_table and get_default_table         *)
(* (main.rs 108-152, 262-330, 357-359).  An Entry is                       *)
(* [command, count, kind], kind being the name of its CmdKind.             *)

Usage == << 85, 115, 97, 103, 101 >>                    \* "Usage"
Count == << 67, 111, 117, 110, 116 >>                   \* "Count"
Command == << 67, 111, 109, 109, 97, 110, 100 >>        \* "Command"
Percent == << 80, 101, 114, 99, 101, 110, 116 >>        \* "Percent"
Type == << 84, 121, 112, 101 >>                         \* "Type"
Dirs == << 68, 105, 114, 115 >>                         \* "Dirs"

\* <TableColumn as Display>::fmt, as to_string() has it
TableColumn_to_string(col) ==
  CASE col = "Command" -> Command
    [] col = "Count" -> Count
    [] col = "Usage" -> Usage
    [] col = "Percent" -> Percent
    [] col = "Dirs" -> Dirs
    [] col = "Type" -> Type

\* <CmdKind as Display>::fmt
CmdKind_to_string(kind) ==
  CASE kind = "Alias" -> << 97, 108, 105, 97, 115 >>
    [] kind = "Function" -> << 102, 117, 110, 99, 116, 105, 111, 110 >>
    [] kind = "Builtin" -> << 98, 117, 105, 108, 116, 105, 110 >>
    [] kind = "Command" -> << 99, 111, 109, 109, 97, 110, 100 >>
    [] kind = "Reserved" -> << 114, 101, 115, 101, 114, 118, 101, 100 >>
    [] kind = "Unknown" -> << 117, 110, 107, 110, 111, 119, 110 >>

\* an unsigned integer's to_string()
RECURSIVE ToDecimal(_)
ToDecimal(n) ==
  IF n < 10 THEN << 48 + n >> ELSE ToDecimal(n \div 10) \o << 48 + (n % 10) >>

\* bar_width, on a terminal of `cols` columns: (cols as f64 * 0.70) as usize
bar_width(cols) == F64Floor(F64Mul(F64Div(7, 10), cols))

\* the total of the counts
RECURSIVE Total(_)
Total(ents) == IF ents = << >> THEN 0 ELSE Head(ents).count + Total(Tail(ents))

\* f64::NAN, told from the non-negative values by its int
NaN == [int |-> -1, frac |-> << >>]
IsNaN(x) == x.int < 0

\* (count as f64 / total as f64) * 100.0; 0.0 / 0.0 is NaN
percentage_f64(count, total) ==
  IF total = 0 THEN NaN ELSE F64Mul(F64Div(count, total), 100)

\* f64 as usize: toward zero, NaN to 0
F64AsUsize(x) == IF IsNaN(x) THEN 0 ELSE F64Floor(x)

\* format!("{:.01}", x): one decimal, the exact value rounded half to even
FormatOneDecimal(x) ==
  IF IsNaN(x) THEN << 78, 97, 78 >>
  ELSE LET m == MulBits(x.frac, 10)
           tenths == x.int * 10 + m.carry
           up == /\ m.bits # << >>
                 /\ m.bits[1] = 1
                 /\ \/ \E j \in 2..Len(m.bits) : m.bits[j] = 1
                    \/ tenths % 2 = 1
           r == tenths + (IF up THEN 1 ELSE 0)
       IN ToDecimal(r \div 10) \o << 46, 48 + (r % 10) >>

\* bar_color.unwrap_or(Color::Green)
BarColor(bar_color) == IF bar_color = None THEN Green ELSE bar_color[1]

\* the cell of get_specified_table's match on the column (its Dirs arm is a
\* todo!(); from_str yields no Dirs, so cli.columns holds none)
SpecifiedCell(column, entry, total, bar_color, cols) ==
  LET pct == F64AsUsize(percentage_f64(entry.count, total)) IN
  CASE column = "Command" -> Cell(entry.command, None)
    [] column = "Count" -> Cell(ToDecimal(entry.count), None)
    [] column = "Usage" ->
         Cell(get_bar(pct, bar_width(cols)).glyphs, Some(BarColor(bar_color)))
    [] column = "Percent" -> Cell(ToDecimal(pct) \o << 37 >>, None)
    [] column = "Type" -> Cell(CmdKind_to_string(entry.kind), None)

\* the row get_specified_table builds of an entry
SpecifiedRow(columns_, entry, total, bar_color, cols) ==
  [i \in 1..Len(columns_) |-> SpecifiedCell(columns_[i], entry, total, bar_color, cols)]

\* the row get_default_table builds of an entry
DefaultRow(entry, total, bar_color, cols) ==
  LET pct == percentage_f64(entry.count, total) IN
  << Cell(entry.command, None),
     Cell(ToDecimal(entry.count), None),
     Cell(FormatOneDecimal(pct) \o << 37 >>, None),
     Cell(get_bar(F64AsUsize(pct), bar_width(cols)).glyphs,
          Some(BarColor(bar_color))) >>

\* Table::find_col_idx: the 0-based position of the first heading equal to
\* column.to_string()
find_col_idx(hs, col_name) ==
  LET at == {i \in 1..Len(hs) : hs[i] = col_name} IN
  IF at = {} THEN None ELSE Some((CHOOSE i \in at : \A j \in at : i <= j) - 1)

-----------------------------------------------------------------------------
(* Inputs of the model.                                                    *)

\* Spec: the column counts and column indexes of the calls, and the cells ""
\* and, in green, "\x1b[1mab" (six chars, two columns wide)
ColumnCounts == 0..2
ColumnIndexes == 0..1
RenderCells ==
  { Cell(<< >>, None),
    Cell(<< 27, 91, 49, 109, 97, 98 >>, Some(Green)) }
RenderHeadings == { Usage }
Titles == { << 84 >> }                                  \* "T"

\* SortSpec: "10", "5", "20", " 5", "a", "b", "c", a bar one column wide and
\* a bar two columns wide
SortCellInputs ==
  { Cell(<< 49, 48 >>, None), Cell(<< 53 >>, None), Cell(<< 50, 48 >>, None),
    Cell(<< 32, 53 >>, None),
    Cell(<< 97 >>, None), Cell(<< 98 >>, None), Cell(<< 99 >>, None),
    Cell(<< 9609 >>, Some(Green)), Cell(<< 9608, 9615 >>, Some(Green)) }
SortHeadings == { Usage, Count, Command }

\* CompareSpec: the cells of SortSpec and "1a"
CompareCellInputs == SortCellInputs \cup { Cell(<< 49, 97 >>, None) }

\* ParseSpec: the column names and aliases, "dirs" and "frobnicate" ...
ColumnWords ==
  { << 99, 111, 109, 109, 97, 110, 100 >>,
    << 99, 109, 100 >>,
    << 99, 111, 117, 110, 116 >>,
    << 99, 97, 108, 108, 115 >>,
    << 117, 115, 97, 103, 101 >>,
    << 98, 97, 114 >>,
    << 112, 101, 114, 99, 101, 110, 116 >>,
    << 112, 99, 116 >>,
    << 37 >>,
    << 116, 121, 112, 101 >>,
    << 100, 105, 114, 115 >>,
    << 102, 114, 111, 98, 110, 105, 99, 97, 116, 101 >> }

ToUpper(str) ==
  [i \in 1..Len(str) |-> IF str[i] \in 97..122 THEN str[i] - 32 ELSE str[i]]
Capitalised(str) ==
  [i \in 1..Len(str) |-> IF i = 1 /\ str[i] \in 97..122 THEN str[i] - 32 ELSE str[i]]

\* ... in lower case, in upper case and capitalised, and every string of up
\* to MaxNameLen of the letters p, c, t, P, C, T and the sign %
ShortNames == UNION {[1..n -> {112, 99, 116, 80, 67, 84, 37}] : n \in 0..MaxNameLen}
ParseInputs ==
  ColumnWords \cup {ToUpper(w) : w \in ColumnWords}
    \cup {Capitalised(w) : w \in ColumnWords} \cup ShortNames

\* EntrySpec: the columns from_str accepts, in any list of up to MaxCliColumns
\* (the empty list: no --columns) and as --sort or none
AcceptedColumns ==
  {from_str(w)[2] : w \in {x \in ColumnWords : from_str(x)[1] = "Ok"}}
ColumnLists == UNION {[1..n -> AcceptedColumns] : n \in 0..MaxCliColumns}
SortOptions == {None} \cup {Some(col) : col \in AcceptedColumns}

\* the commands "ls", "10" and "1a", called 3 times, once and never
EntryInputs ==
  { [command |-> << 108, 115 >>, count |-> 3, kind |-> "Command"],
    [command |-> << 49, 48 >>, count |-> 1, kind |-> "Alias"],
    [command |-> << 49, 97 >>, count |-> 0, kind |-> "Unknown"] }
\* the entries as prepare_entries leaves them: by count, greatest first
EntryLists ==
  {es \in UNION {[1..n -> EntryInputs] : n \in 0..MaxEntries} :
     \A i \in 1..(Len(es) - 1) : es[i].count >= es[i + 1].count}
\* the terminal's columns: 80 where terminal::size() fails, or 40
TermColumns == { 80, 40 }
\* get_entry_table(bar_color): no --bar-color
BarColors == { None }

\* Row::new().with_cell(..)...: one cell per column, as get_specified_table
\* and get_default_table build their rows
RowsOf(cells, n) == [1..n -> cells]

-----------------------------------------------------------------------------
(* The calls on a Table.  A call that panics leaves last = "panic" and the *)
(* table is used no further; fmt is the last call of a call path.          *)

Live == last \notin {"panic", "fmt"}

Panic ==
  /\ last' = "panic"
  /\ sorted_from' = << >>
  /\ UNCHANGED << title, headings, columns, rows, sort_by, reverse, no_header,
                  widths, out >>

\* what every call but sort and fmt leaves of the call-path variables
Built ==
  /\ last' = "build"
  /\ sorted_from' = << >>
  /\ UNCHANGED << widths, out >>

\* Table::new()
Table_new ==
  /\ title = None
  /\ headings = << >>
  /\ columns = 0
  /\ rows = << >>
  /\ sort_by = None
  /\ reverse = FALSE
  /\ no_header = FALSE
  /\ last = "new"
  /\ sorted_from = << >>
  /\ widths = << >>
  /\ out = << >>

with_n_columns(n) ==
  /\ Live
  /\ columns' = n
  /\ Built
  /\ UNCHANGED << title, headings, rows, sort_by, reverse, no_header >>

\* field_num is 0-based, as in the source
with_heading(field_num, heading, maxHeadings) ==
  /\ Live
  /\ Len(headings) < maxHeadings
  /\ IF field_num < columns /\ field_num <= Len(headings)
       THEN /\ headings' = VecInsert(headings, field_num, heading)
            /\ Built
            /\ UNCHANGED << title, columns, rows, sort_by, reverse, no_header >>
       ELSE Panic      \* the assert!, or Vec::insert's index > len

with_title(t) ==
  /\ Live
  /\ title' = Some(t)
  /\ Built
  /\ UNCHANGED << headings, columns, rows, sort_by, reverse, no_header >>

omit_header(yn) ==
  /\ Live
  /\ no_header' = yn
  /\ Built
  /\ UNCHANGED << title, headings, columns, rows, sort_by, reverse >>

add_row(row, maxRows) ==
  /\ Live
  /\ Len(rows) < maxRows
  /\ rows' = Append(rows, row)
  /\ Built
  /\ UNCHANGED << title, headings, columns, sort_by, reverse, no_header >>

set_sort_column(col_idx) ==
  /\ Live
  /\ sort_by' = Some(col_idx)
  /\ Built
  /\ UNCHANGED << title, headings, columns, rows, reverse, no_header >>

Table_reverse ==
  /\ Live
  /\ reverse' = TRUE
  /\ Built
  /\ UNCHANGED << title, headings, columns, rows, sort_by, no_header >>

Table_sort ==
  /\ Live
  /\ IF sort_panics(headings, columns, rows, sort_by)
       THEN Panic
       ELSE /\ rows' = sort_by_compare(rows, SortColumn(sort_by), headings, reverse)
            /\ sorted_from' = rows
            /\ last' = "sort"
            /\ UNCHANGED << title, headings, columns, sort_by, reverse, no_header,
                            widths, out >>

Table_fmt ==
  /\ Live
  /\ IF calc_cell_widths_panics(rows, columns)
       THEN Panic
       ELSE /\ widths' = fmt_widths(headings, rows)
            /\ out' = fmt_lines(title, headings, columns, rows, no_header)
            /\ last' = "fmt"
            /\ sorted_from' = << >>
            /\ UNCHANGED << title, headings, columns, rows, sort_by, reverse,
                            no_header >>

BarIdle == percentage = 0 /\ term_width = 0 /\ bar = None
ParseIdle == s = << >> /\ parsed = None
CompareIdle == compared = None
EntryIdle == cli_columns = << >> /\ cli_sort = None /\ entries = << >> /\ pc = "idle"

Init == Table_new /\ BarIdle /\ ParseIdle /\ CompareIdle /\ EntryIdle

Next ==
  /\ \/ \E n \in ColumnCounts : with_n_columns(n)
     \/ \E i \in ColumnIndexes, h \in RenderHeadings : with_heading(i, h, MaxHeadings)
     \/ \E t \in Titles : with_title(t)
     \/ \E yn \in BOOLEAN : omit_header(yn)
     \/ \E row \in RowsOf(RenderCells, columns) : add_row(row, MaxRows)
     \/ \E c \in ColumnIndexes : set_sort_column(c)
     \/ Table_reverse
     \/ Table_sort
     \/ Table_fmt
  /\ UNCHANGED << barVars, parseVars, compareVars, entryVars >>

Spec == Init /\ [][Next]_vars

\* SortSpec: the table of get_specified_table for one column (main.rs
\* 266-272), then the calls of its row loop and of get_entry_table
SortInit ==
  /\ \E h \in SortHeadings : headings = << h >>
  /\ columns = 1
  /\ title = None /\ rows = << >> /\ sort_by = None
  /\ reverse = FALSE /\ no_header = FALSE
  /\ last = "build" /\ sorted_from = << >> /\ widths = << >> /\ out = << >>
  /\ BarIdle /\ ParseIdle /\ CompareIdle /\ EntryIdle

SortNext ==
  /\ \/ \E row \in RowsOf(SortCellInputs, columns) : add_row(row, MaxSortRows)
     \/ \E c \in 0..(columns - 1) : set_sort_column(c)
     \/ Table_reverse
     \/ Table_sort
  /\ UNCHANGED << barVars, parseVars, compareVars, entryVars >>

SortSpec == SortInit /\ [][SortNext]_vars

\* BarSpec: one call of get_bar on any percentage and width
BarInit ==
  /\ Table_new /\ ParseIdle /\ CompareIdle /\ EntryIdle
  /\ percentage \in 0..MaxPercentage
  /\ term_width \in 0..MaxBarWidth
  /\ bar = None

call_get_bar ==
  /\ bar = None
  /\ bar' = Some(get_bar(percentage, term_width))
  /\ UNCHANGED << percentage, term_width >>

BarNext == call_get_bar /\ UNCHANGED << tableVars, parseVars, compareVars, entryVars >>

BarSpec == BarInit /\ [][BarNext]_vars

\* ParseSpec: one call of from_str on any of the input strings
ParseInit ==
  /\ Table_new /\ BarIdle /\ CompareIdle /\ EntryIdle
  /\ s \in ParseInputs
  /\ parsed = None

call_from_str ==
  /\ parsed = None
  /\ parsed' = Some(from_str(s))
  /\ UNCHANGED s

ParseNext == call_from_str /\ UNCHANGED << tableVars, barVars, compareVars, entryVars >>

ParseSpec == ParseInit /\ [][ParseNext]_vars

\* CompareSpec: a one-column table of three rows, as SortSpec builds it, and
\* the comparator of sort() called on every pair of its rows
CompareInit ==
  /\ \E h \in SortHeadings : headings = << h >>
  /\ columns = 1
  /\ rows \in [1..3 -> RowsOf(CompareCellInputs, 1)]
  /\ reverse \in BOOLEAN
  /\ title = None /\ sort_by = None /\ no_header = FALSE
  /\ last = "build" /\ sorted_from = << >> /\ widths = << >> /\ out = << >>
  /\ BarIdle /\ ParseIdle /\ CompareIdle /\ EntryIdle

call_compare ==
  /\ compared = None
  /\ compared' = Some([i \in 1..Len(rows) |-> [j \in 1..Len(rows) |->
                    compare(rows[i], rows[j], SortColumn(sort_by), headings, reverse)]])
  /\ UNCHANGED tableVars

CompareNext == call_compare /\ UNCHANGED << barVars, parseVars, entryVars >>

CompareSpec == CompareInit /\ [][CompareNext]_vars

\* EntrySpec: CmdStats::get_entry_table (main.rs 242-261), with
\* get_specified_table or get_default_table (main.rs 262-330), statement by
\* statement on the Table they build
EntryInit ==
  /\ Table_new /\ BarIdle /\ ParseIdle /\ CompareIdle
  /\ cli_columns \in ColumnLists
  /\ cli_sort \in SortOptions
  /\ entries \in EntryLists
  /\ pc = "new"

\* the headings of the table: cli.columns, or the four of get_default_table
EntryHeadings ==
  IF cli_columns # << >>
    THEN [i \in 1..Len(cli_columns) |-> TableColumn_to_string(cli_columns[i])]
    ELSE << Command, Count, Percent, Usage >>

\* Table::new().with_n_columns(columns.len()), or .with_n_columns(4)
entry_with_n_columns ==
  /\ pc = "new"
  /\ with_n_columns(Len(EntryHeadings))
  /\ pc' = "headings"
  /\ UNCHANGED << cli_columns, cli_sort, entries >>

\* table.with_heading(i, column), for each column in turn
entry_with_heading ==
  /\ pc = "headings"
  /\ with_heading(Len(headings), EntryHeadings[Len(headings) + 1], Len(EntryHeadings))
  /\ pc' = IF Len(headings) + 1 = Len(EntryHeadings) THEN "rows" ELSE "headings"
  /\ UNCHANGED << cli_columns, cli_sort, entries >>

\* table.add_row(row), for each entry in turn
entry_add_row(bar_color, cols) ==
  /\ pc = "rows"
  /\ LET entry == entries[Len(rows) + 1]
         total == Total(entries)
     IN add_row(IF cli_columns # << >>
                  THEN SpecifiedRow(cli_columns, entry, total, bar_color, cols)
                  ELSE DefaultRow(entry, total, bar_color, cols),
                Len(entries))
  /\ UNCHANGED entryVars

\* find_col_idx(col).unwrap(), or find_col_idx(Count).unwrap_or(0), then
\* set_sort_column
entry_set_sort_column ==
  /\ pc = "rows"
  /\ Len(rows) = Len(entries)
  /\ IF cli_sort # None
       THEN LET found == find_col_idx(headings, TableColumn_to_string(cli_sort[1])) IN
            IF found = None
              THEN Live /\ Panic          \* unwrap() on None
              ELSE set_sort_column(found[1])
       ELSE LET found == find_col_idx(headings, TableColumn_to_string("Count")) IN
            set_sort_column(IF found = None THEN 0 ELSE found[1])
  /\ pc' = "reverse"
  /\ UNCHANGED << cli_columns, cli_sort, entries >>

\* if self.cli.reverse { table.reverse() }
entry_reverse(cli_reverse) ==
  /\ pc = "reverse"
  /\ IF cli_reverse THEN Table_reverse ELSE Live /\ UNCHANGED tableVars
  /\ pc' = "sort"
  /\ UNCHANGED << cli_columns, cli_sort, entries >>

\* table.sort()
entry_sort ==
  /\ pc = "sort"
  /\ Table_sort
  /\ pc' = "omit_header"
  /\ UNCHANGED << cli_columns, cli_sort, entries >>

\* table.omit_header(self.cli.no_header)
entry_omit_header(cli_no_header) ==
  /\ pc = "omit_header"
  /\ omit_header(cli_no_header)
  /\ pc' = "done"
  /\ UNCHANGED << cli_columns, cli_sort, entries >>

EntryNext ==
  /\ \/ entry_with_n_columns
     \/ entry_with_heading
     \/ \E bar_color \in BarColors, cols \in TermColumns : entry_add_row(bar_color, cols)
     \/ entry_set_sort_column
     \/ \E cli_reverse \in BOOLEAN : entry_reverse(cli_reverse)
     \/ entry_sort
     \/ \E cli_no_header \in BOOLEAN : entry_omit_header(cli_no_header)
  /\ UNCHANGED << barVars, parseVars, compareVars >>

EntrySpec == EntryInit /\ [][EntryNext]_vars

-----------------------------------------------------------------------------
(* Table::sort, checked under SortSpec.                                    *)

AfterSort == last = "sort"

\* the cells of the sort column, top row first
SortColumnCells == [i \in 1..Len(rows) |-> rows[i][SortColumn(sort_by)]]
SortedFromCells == [i \in 1..Len(sorted_from) |-> sorted_from[i][SortColumn(sort_by)]]
Contents(cells) == [i \in 1..Len(cells) |-> cells[i].content]

SortHeading == headings[SortColumn(sort_by)]

\* no two cells of the sort column are both numeric: every comparison takes
\* the comparator's second branch
NoNumericPair ==
  Cardinality({i \in 1..Len(rows) : as_number(SortColumnCells[i]) # None}) <= 1
AllNumeric == \A i \in 1..Len(rows) : as_number(SortColumnCells[i]) # None

LexAscending ==
  \A i \in 1..(Len(rows) - 1) :
    StrCmp(SortColumnCells[i].content, SortColumnCells[i + 1].content) # "Greater"
LexDescending ==
  \A i \in 1..(Len(rows) - 1) :
    StrCmp(SortColumnCells[i].content, SortColumnCells[i + 1].content) # "Less"

\* C1 as amended: after sort() on a column whose heading is not "Usage" and
\* in which no two cells are both numeric, the rows are in ascending lexical
\* order of that column when reverse = false and in descending lexical order
\* when reverse = true.
C1_LexicalSort ==
  (AfterSort /\ SortHeading # Usage /\ NoNumericPair)
    => IF reverse THEN LexDescending ELSE LexAscending

\* C1 as stated: descending when reverse = false, ascending when reverse = true.
C1_AsStated ==
  (AfterSort /\ SortHeading # Usage /\ NoNumericPair)
    => IF reverse THEN LexAscending ELSE LexDescending

\* C1's case: "b", "a", "c" sorted by Command with reverse = false
C1_Witness ==
  /\ AfterSort /\ SortHeading = Command /\ ~reverse
  /\ Contents(SortedFromCells) = << << 98 >>, << 97 >>, << 99 >> >>
  /\ Contents(SortColumnCells) = << << 97 >>, << 98 >>, << 99 >> >>

Numbers == [i \in 1..Len(rows) |-> as_number(SortColumnCells[i])[1]]
Occurrences(seq, x) == Cardinality({i \in 1..Len(seq) : seq[i] = x})
IsPermutation(p, q) ==
  /\ Len(p) = Len(q)
  /\ \A i \in 1..Len(p) : Occurrences(p, p[i]) = Occurrences(q, p[i])

\* C2: after sort() on a column whose every cell parses as a number, the rows
\* are in descending numeric order when reverse = false and in ascending
\* numeric order when reverse = true, and they are a permutation of the rows
\* before the sort.
C2_NumericSort ==
  (AfterSort /\ AllNumeric)
    => /\ \A i \in 1..(Len(rows) - 1) :
            IF reverse THEN Numbers[i] <= Numbers[i + 1]
                       ELSE Numbers[i] >= Numbers[i + 1]
       /\ IsPermutation(rows, sorted_from)

\* C2's case: counts 10, 5, 20 become 20, 10, 5
C2_Witness ==
  /\ AfterSort /\ ~reverse
  /\ Contents(SortedFromCells) = << << 49, 48 >>, << 53 >>, << 50, 48 >> >>
  /\ Contents(SortColumnCells) = << << 50, 48 >>, << 49, 48 >>, << 53 >> >>

CellWidths == [i \in 1..Len(rows) |-> StrWidth(SortColumnCells[i].content)]

\* C3: after sort() on the column headed "Usage" in which no two cells are
\* both numeric, the rows are ordered by the display width of the cell
\* content: widest first when reverse = false, narrowest first when
\* reverse = true.
C3_UsageSort ==
  (AfterSort /\ SortHeading = Usage /\ NoNumericPair)
    => \A i \in 1..(Len(rows) - 1) :
         IF reverse THEN CellWidths[i] <= CellWidths[i + 1]
                    ELSE CellWidths[i] >= CellWidths[i + 1]

\* C3's case: the wider bar is put first although it is the lesser string
C3_Witness ==
  /\ AfterSort /\ SortHeading = Usage /\ ~reverse
  /\ Contents(SortedFromCells) = << << 9609 >>, << 9608, 9615 >> >>
  /\ Contents(SortColumnCells) = << << 9608, 9615 >>, << 9609 >> >>
  /\ StrCmp(<< 9608, 9615 >>, << 9609 >>) = "Less"

-----------------------------------------------------------------------------
(* The Table's calls and <Table as Display>::fmt, checked under Spec.      *)

\* C7 as stated: wherever the calls did not abort, headings.len() <= columns.
C7_HeadingsWithinColumns == last # "panic" => Len(headings) <= columns

AfterFmt == last = "fmt"

\* C6 as stated: no column with a nonzero computed width, so empty output.
C6_AsStated ==
  (AfterFmt /\ \A i \in 1..Len(widths) : widths[i] = 0) => out = << >>

\* C6 as amended: a Table with no headings and no cell in any row (so with no
\* computed width at all), whatever its title, column count and header flag,
\* renders to empty output.
C6_EmptyRender ==
  (AfterFmt /\ headings = << >> /\ \A i \in 1..Len(rows) : rows[i] = << >>)
    => out = << >>

\* C6's case: no rows, no headings, a title, two columns, headers shown
C6_Witness ==
  /\ AfterFmt /\ headings = << >> /\ rows = << >>
  /\ title # None /\ columns = 2 /\ ~no_header
  /\ out = << >>

DisplayWidth(str) == StrWidth(strip_ansi_codes(str))
SetMax(S) == IF S = {} THEN 0 ELSE CHOOSE x \in S : \A y \in S : y <= x
ColumnCellWidths(i) ==
  {DisplayWidth(rows[r][i].content) : r \in {q \in 1..Len(rows) : i <= Len(rows[q])}}
HeadingWidth(i) == IF i <= Len(headings) THEN {DisplayWidth(headings[i])} ELSE {}

\* C8 as stated: the width of column i of a table with rows is the greatest
\* display width among the cells of column i and, only if headers are shown,
\* heading i.
C8_AsStated ==
  (AfterFmt /\ rows # << >>) =>
    \A i \in 1..Len(widths) :
      widths[i] = SetMax(ColumnCellWidths(i)
                           \cup (IF no_header THEN {} ELSE HeadingWidth(i)))

\* C8 as amended: the width of column i is the greatest display width (ANSI
\* escapes stripped) among the cells of column i and heading i, whether headers
\* are shown or suppressed.
C8_ColumnWidths ==
  AfterFmt =>
    \A i \in 1..Len(widths) :
      widths[i] = SetMax(ColumnCellWidths(i) \cup HeadingWidth(i))

\* C8's case: headers suppressed, a heading wider than every cell of its
\* column, one of them a cell with an ANSI escape
C8_Witness ==
  /\ AfterFmt /\ no_header /\ Len(rows) = 2
  /\ \E i \in 1..Len(headings) :
       /\ i <= columns
       /\ \A w \in ColumnCellWidths(i) : w < DisplayWidth(headings[i])
       /\ \E r \in 1..Len(rows) :
            strip_ansi_codes(rows[r][i].content) # rows[r][i].content
       /\ widths[i] = DisplayWidth(headings[i])

TitleEmitted == \E i \in 1..Len(out) : out[i].k = "title"
TitleAndRule ==
  /\ Len(out) >= 2
  /\ out[1] = [k |-> "title", s |-> title[1]]
  /\ out[2] = [k |-> "rule", s |-> Repeat(<< DASH >>, Sum(widths) + columns)]
  /\ \A i \in 2..Len(out) : out[i].k # "title"
\* the last line is a rule, and not the rule under the heading row
FinalRule ==
  /\ out # << >>
  /\ out[Len(out)] = [k |-> "rule", s |-> Repeat(<< DASH >>, Sum(widths) + columns)]
  /\ Len(out) >= 2 => out[Len(out) - 1].k \in {"row", "rule"}
RowLines == {i \in 1..Len(out) : out[i].k = "row"}

\* C9 as stated: in a non-empty rendering the title line and its rule are
\* there iff a title is set and headers are not suppressed.
C9_AsStated ==
  (AfterFmt /\ out # << >>)
    => /\ TitleEmitted <=> (title # None /\ ~no_header)
       /\ TitleEmitted => TitleAndRule
       /\ FinalRule <=> ~no_header

\* C9 as amended: in a non-empty rendering the title line, followed by a rule
\* of length sum of the column widths + column count, is emitted iff a title
\* is set, headers are not suppressed and the table has a heading; a final rule
\* follows the data rows iff headers are not suppressed.
C9_TitleLine ==
  (AfterFmt /\ out # << >>)
    => /\ TitleEmitted <=> (title # None /\ ~no_header /\ headings # << >>)
       /\ TitleEmitted => TitleAndRule
       /\ FinalRule <=> ~no_header
       /\ \A i \in RowLines : i < Len(out) \/ no_header

\* C9's case: a title, headings and a row, headers shown
C9_Witness ==
  /\ AfterFmt /\ title # None /\ ~no_header /\ headings # << >> /\ rows # << >>
  /\ TitleAndRule /\ FinalRule

-----------------------------------------------------------------------------
(* get_bar, checked under BarSpec.                                         *)

Returned == bar # None /\ ~bar[1].unreachable
Glyphs == Len(bar[1].glyphs)
Product == percentage * term_width
\* the bar is full blocks throughout
AllFull == \A i \in 1..Glyphs : bar[1].glyphs[i] = BAR_CHARS[8]

\* C4 as stated: get_bar returns, and with exactly floor(p*w/100) + 1 glyphs.
C4_AsStated ==
  bar # None => (Returned /\ Glyphs = (Product \div 100) + 1)

\* C4 as amended: get_bar(p, w) returns without hitting its unreachable
\* branch a string of floor(p*w/100) + 1 glyphs, or, where p*w is a multiple
\* of 100 and the f64 product (p/100.0)*w falls below it, of floor(p*w/100)
\* glyphs, all of them full blocks; for w = 50 the glyph count is
\* non-decreasing in p, get_bar(0, 50) has 1 glyph and get_bar(100, 50) has 51.
C4_BarLength ==
  bar # None =>
    /\ Returned
    /\ \/ Glyphs = (Product \div 100) + 1
       \/ Glyphs = Product \div 100 /\ Product % 100 = 0 /\ AllFull
    /\ (term_width = 50 /\ percentage < 100)
         => Glyphs <= Len(get_bar(percentage + 1, term_width).glyphs)
    /\ (term_width = 50 /\ percentage = 0) => Glyphs = 1
    /\ (term_width = 50 /\ percentage = 100) => Glyphs = 51

\* C4's case: get_bar(58, 50), where 0.58 * 50.0 is 28.999999999999996
C4_Witness ==
  /\ percentage = 58 /\ term_width = 50 /\ Returned
  /\ Glyphs = 29 /\ AllFull

\* the last glyph of a bar whose f64 remainder comes to r eighths, as C10
\* states it
EighthsGlyph(r) ==
  IF r \in {0, 1} THEN BAR_CHARS[1] ELSE IF r = 8 THEN BAR_CHARS[8] ELSE BAR_CHARS[r]

\* C10 as stated: the trailing glyph is chosen by
\* remainder_eighths = round((scaled - full) * 8).
C10_AsStated ==
  Returned =>
    bar[1].glyphs[Glyphs] = EighthsGlyph(remainder_in_eighths(percentage, term_width))

\* the values round(x * 10) can take for the fraction x of p*w/100, x * 10
\* being off its exact value by the f64 rounding: either neighbour at a tie,
\* and 10 for 0 where the f64 product falls below the integer
Tenths ==
  LET f == Product % 100 IN
  IF f = 0 THEN {0, 10}
  ELSE IF f % 10 = 5 THEN {f \div 10, (f \div 10) + 1}
  ELSE {(f + 5) \div 10}

\* the place in BAR_CHARS of the glyph for each number of tenths, 0 to 10
TenthsGlyph == << 1, 1, 2, 3, 3, 4, 4, 5, 6, 7, 8 >>

\* C10 as amended: the trailing glyph of get_bar(p, w) is selected by
\* remainder = round((scaled - full) * 10), in tenths: BAR_CHARS[0] (the
\* narrowest block) for 0 or 1, [1] for 2, [2] for 3 or 4, [3] for 5 or 6,
\* [4] for 7, [5] for 8, [6] for 9 and [7] (the full block) for 10.
C10_PartialGlyph ==
  Returned =>
    \E r \in Tenths : bar[1].glyphs[Glyphs] = BAR_CHARS[TenthsGlyph[r + 1]]

\* C10's case: get_bar(30, 1), three tenths and 2.4 eighths of a block
C10_Witness ==
  /\ percentage = 30 /\ term_width = 1 /\ Returned
  /\ bar[1].glyphs = << BAR_CHARS[3] >>
  /\ EighthsGlyph(remainder_in_eighths(30, 1)) = BAR_CHARS[2]

-----------------------------------------------------------------------------
(* from_str, checked under ParseSpec.                                      *)

\* the documented names of each column
ColumnNames ==
  [Command |-> {<< 99, 111, 109, 109, 97, 110, 100 >>, << 99, 109, 100 >>},
   Count |-> {<< 99, 111, 117, 110, 116 >>, << 99, 97, 108, 108, 115 >>},
   Usage |-> {<< 117, 115, 97, 103, 101 >>, << 98, 97, 114 >>},
   Percent |-> {<< 112, 101, 114, 99, 101, 110, 116 >>, << 112, 99, 116 >>, << 37 >>},
   Type |-> {<< 116, 121, 112, 101 >>}]

\* equal but for the case of the letters
SameIgnoringCase(a, b) ==
  /\ Len(a) = Len(b)
  /\ \A i \in 1..Len(a) : ToUpper(<< a[i] >>) = ToUpper(<< b[i] >>)

Named(col) == \E name \in ColumnNames[col] : SameIgnoringCase(s, name)

\* C5: from_str is case-insensitive and maps exactly command|cmd to Command,
\* count|calls to Count, usage|bar to Usage, percent|pct|% to Percent and type
\* to Type; every other string fails with an error that carries the string
\* verbatim, in the case it was given.
C5_ColumnParsing ==
  parsed # None =>
    /\ \A col \in DOMAIN ColumnNames : Named(col) => parsed[1] = Ok(col)
    /\ (\A col \in DOMAIN ColumnNames : ~Named(col))
         => /\ parsed[1][1] = "Err"
            \* after the message's thirty chars and before its closing quote
            /\ Len(parsed[1][2]) = Len(s) + 31
            /\ SubSeq(parsed[1][2], 31, Len(s) + 30) = s

\* C5's case: "Dirs", the name of a TableColumn, is no column name and comes
\* back in the error as it was given
C5_Witness ==
  /\ s = << 68, 105, 114, 115 >>
  /\ parsed = Some(Err(InvalidColumnName(<< 68, 105, 114, 115 >>)))
  /\ \E t \in ParseInputs : t # s /\ SameIgnoringCase(t, s)

-----------------------------------------------------------------------------
(* The comparator of Table::sort, checked under CompareSpec.               *)

\* compare(rows[i], rows[j]) as the comparator returned it
Ord(i, j) == compared[1][i][j]

\* compare(a, b) is the reverse of compare(b, a)
Antisymmetric ==
  \A i, j \in 1..Len(rows) : Ord(i, j) = OrdReverse(Ord(j, i))
\* compare(a, b) = Less and compare(b, c) = Less imply compare(a, c) = Less
Transitive ==
  \A i, j, k \in 1..Len(rows) :
    (Ord(i, j) = "Less" /\ Ord(j, k) = "Less") => Ord(i, k) = "Less"

\* C11 as stated: for either value of reverse and any cells a, b, c of the
\* sort column, numeric or not, the comparator of sort() is a consistent
\* total preorder: compare(a, b) is the reverse of compare(b, a), and
\* compare(a, b) = Less with compare(b, c) = Less implies compare(a, c) = Less.
C11_ComparatorConsistency ==
  compared # None => (Antisymmetric /\ Transitive)

-----------------------------------------------------------------------------
(* get_entry_table, checked under EntrySpec.                               *)

\* C12 as stated: for every column selection and every sort kind the parser
\* accepts, get_entry_table does not fail an unwrap or an assertion; once the
\* sort column is set it is smaller than the table's column count, and
\* sort() completes.
C12_SortColumnResolved ==
  /\ last # "panic"
  /\ (pc \in {"reverse", "sort", "omit_header", "done"})
       => (sort_by # None /\ sort_by[1] < columns)
  /\ (pc \in {"omit_header", "done"}) => last \in {"sort", "build"}

=============================================================================
